---- MODULE Spec2Model ----
(***************************************************************************)
(* Model of the two maintenance scripts of the repository:                 *)
(*   fix-api-spec.py   - quotes bare default values and removes duplicate  *)
(*                       path sections of api-spec.yaml                    *)
(*   validate-spec.py  - parses api-spec.yaml and checks its structure     *)
(*                                                                         *)
(* Text is modelled at token granularity: a string is a sequence of        *)
(* tokens, every token standing for a fixed run of characters.  The        *)
(* whitespace characters " " and "\n" are tokens of their own, so          *)
(* str.split, str.strip, str.startswith, the "in" operator and the two     *)
(* regular expressions are computed over the sequence as the code          *)
(* computes them over characters.  Python indices are 0-based, the         *)
(* indices of the model are 1-based: the span [start_idx, end_idx) of the  *)
(* code is start_idx .. end_idx - 1 here too, with end_idx = Len + 1 for   *)
(* len(lines).                                                             *)
(***************************************************************************)
EXTENDS Integers, Sequences, FiniteSets, TLC

\* longest document, in lines, that Init enumerates
MaxLen == 4
\* number of runs of fix_api_spec on the same file
MaxRuns == 2

\* state of fix-api-spec.py: the file on disk, the locals of fix_api_spec,
\* the position in it, the number of the run and the file as that run found it
VARIABLES file, content, lines, billing_indices, webhook_indices,
          lines_to_remove, pc, run, orig

\* state of validate-spec.py: whether PyYAML can be imported, what is on
\* disk, the locals of validate_openapi_spec, the position in the script,
\* the pending exception, what was printed and the exit status
VARIABLES yaml_available, disk, spec, field_idx, missing_refs, ret, vpc,
          raised, out, exit_code

fvars == <<file, content, lines, billing_indices, webhook_indices,
           lines_to_remove, pc, run, orig>>

vvars == <<yaml_available, disk, spec, field_idx, missing_refs, ret, vpc,
           raised, out, exit_code>>

vars == <<fvars, vvars>>

-----------------------------------------------------------------------------
(* Tokens and the lines documents are made of *)

NL == "\n"
SP == " "

\* \s of the regular expressions, and the characters str.strip() removes
IsSpace(t) == t \in {SP, NL}

DefaultEn == "default: en"
DefaultEnQuoted == "default: \"en\""
DefaultPublished == "default: published"
DefaultPublishedQuoted == "default: \"published\""

\* '/api/billing/plans:'
BillingMarker == <<"/api/", "billing", "/plans:">>
\* '/api/webhooks/dodo:'
WebhookMarker == <<"/api/", "webhooks/dodo:">>
\* '# '
HashSpace == <<"#", SP>>
\* '/api/'
ApiPrefix == <<"/api/">>
\* '/api/billing'
ApiBillingPrefix == <<"/api/", "billing">>
\* 'Webhook'
WebhookWord == <<"Webhook">>

\* lines of documents with path sections
SectionLines ==
    { <<SP, SP, DefaultEn>>,                             \*   default: en
      <<>>,                                              \* (empty line)
      BillingMarker,                                     \* /api/billing/plans:
      <<SP, SP>> \o WebhookMarker,                       \*   /api/webhooks/dodo:
      <<"#", SP, "Users">>,                              \* # Users
      <<"#", SP, "Webhook">>,                            \* # Webhook
      <<"#", SP>> \o BillingMarker,                      \* # /api/billing/plans:
      <<"/api/", "users:">>,                             \* /api/users:
      BillingMarker \o <<SP>> \o WebhookMarker }         \* both markers on a line

\* lines of documents with default values
QuoteLines ==
    { <<"a:">>,                                          \* a:
      <<>>,                                              \* (empty line)
      <<SP, SP, DefaultEn>>,                             \*   default: en
      <<DefaultEn>>,                                     \* default: en
      <<SP, SP, DefaultEn, "able">>,                     \*   default: enable
      <<SP, SP, DefaultPublished>> }                     \*   default: published

RECURSIVE SeqsUpTo(_, _)
SeqsUpTo(S, n) ==
    IF n = 0 THEN { <<>> }
    ELSE LET shorter == SeqsUpTo(S, n - 1)
         IN  shorter \cup { Append(s, x) : s \in { t \in shorter : Len(t) = n - 1 }, x \in S }

-----------------------------------------------------------------------------
(* String helpers *)

\* '\n'.join(ls)
RECURSIVE Join(_)
Join(ls) ==
    IF Len(ls) = 0 THEN <<>>
    ELSE IF Len(ls) = 1 THEN ls[1]
    ELSE ls[1] \o <<NL>> \o Join(Tail(ls))

\* s.split('\n'): always at least one element
RECURSIVE SplitFrom(_, _, _)
SplitFrom(s, i, cur) ==
    IF i > Len(s) THEN << cur >>
    ELSE IF s[i] = NL THEN << cur >> \o SplitFrom(s, i + 1, <<>>)
    ELSE SplitFrom(s, i + 1, Append(cur, s[i]))

Split(s) == SplitFrom(s, 1, <<>>)

\* s.strip()
RECURSIVE LStrip(_)
LStrip(s) ==
    IF Len(s) > 0 /\ IsSpace(s[1]) THEN LStrip(Tail(s)) ELSE s

RECURSIVE RStrip(_)
RStrip(s) ==
    IF Len(s) > 0 /\ IsSpace(s[Len(s)]) THEN RStrip(SubSeq(s, 1, Len(s) - 1)) ELSE s

Strip(s) == RStrip(LStrip(s))

\* s.startswith(p)
StartsWith(s, p) == Len(s) >= Len(p) /\ SubSeq(s, 1, Len(p)) = p

\* p in s
Contains(s, p) == \E i \in 1..(Len(s) - Len(p) + 1) : SubSeq(s, i, i + Len(p) - 1) = p

-----------------------------------------------------------------------------
(* Fix 1: re.sub(r'(\s+)LIT(\s)', r'\1"LIT"\2', content) *)

\* index just after the maximal run of whitespace starting at i
RECURSIVE SpaceRunEnd(_, _)
SpaceRunEnd(s, i) ==
    IF i <= Len(s) /\ IsSpace(s[i]) THEN SpaceRunEnd(s, i + 1) ELSE i

\* the pattern matches at i: one or more \s, the literal, one \s
MatchAt(s, i, lit) ==
    LET q == SpaceRunEnd(s, i)
    IN  /\ q > i
        /\ q + 1 <= Len(s)
        /\ s[q] = lit
        /\ IsSpace(s[q + 1])

\* leftmost, non-overlapping substitution, scanning from i
RECURSIVE SubFrom(_, _, _, _)
SubFrom(s, i, lit, quoted) ==
    IF i > Len(s) THEN <<>>
    ELSE IF MatchAt(s, i, lit)
         THEN LET q == SpaceRunEnd(s, i)
              IN  SubSeq(s, i, q - 1) \o <<quoted, s[q + 1]>> \o SubFrom(s, q + 2, lit, quoted)
         ELSE <<s[i]>> \o SubFrom(s, i + 1, lit, quoted)

ReSub(s, lit, quoted) == SubFrom(s, 1, lit, quoted)

QuoteDefaults(s) ==
    ReSub(ReSub(s, DefaultEn, DefaultEnQuoted), DefaultPublished, DefaultPublishedQuoted)

-----------------------------------------------------------------------------
(* Fix 2: duplicate sections *)

IsBillingLine(line) == Contains(Strip(line), BillingMarker)

IsWebhookLine(line) == Contains(Strip(line), WebhookMarker)

\* the for/if/elif loop that fills billing_indices
RECURSIVE ScanBilling(_, _)
ScanBilling(ls, i) ==
    IF i > Len(ls) THEN <<>>
    ELSE IF IsBillingLine(ls[i]) THEN <<i>> \o ScanBilling(ls, i + 1)
    ELSE ScanBilling(ls, i + 1)

\* the for/if/elif loop that fills webhook_indices
RECURSIVE ScanWebhook(_, _)
ScanWebhook(ls, i) ==
    IF i > Len(ls) THEN <<>>
    ELSE IF IsBillingLine(ls[i]) THEN ScanWebhook(ls, i + 1)
    ELSE IF IsWebhookLine(ls[i]) THEN <<i>> \o ScanWebhook(ls, i + 1)
    ELSE ScanWebhook(ls, i + 1)

\* end-of-section test of the billing loop
BillingBoundary(line) ==
    LET l == Strip(line)
    IN  StartsWith(l, HashSpace) \/ (StartsWith(l, ApiPrefix) /\ ~StartsWith(l, ApiBillingPrefix))

\* end-of-section test of the webhook loop
WebhookBoundary(line) ==
    LET l == Strip(line)
    IN  StartsWith(l, HashSpace) /\ ~Contains(l, WebhookWord)

\* BillingEnd without the break: the last boundary line ends the section
RECURSIVE BillingEnd_NoBreak(_, _)
BillingEnd_NoBreak(ls, j) ==
    IF j > Len(ls) THEN Len(ls) + 1
    ELSE LET rest == BillingEnd_NoBreak(ls, j + 1)
         IN  IF rest <= Len(ls) THEN rest
             ELSE IF BillingBoundary(ls[j]) THEN j
             ELSE rest

\* inner loop of the billing block: j runs from start_idx + 1
RECURSIVE BillingEnd(_, _)
BillingEnd(ls, j) ==
    IF j > Len(ls) THEN Len(ls) + 1
    ELSE IF BillingBoundary(ls[j]) THEN j
    ELSE BillingEnd(ls, j + 1)

\* WebhookEnd taking the boundary line into the section
RECURSIVE WebhookEnd_PastBoundary(_, _)
WebhookEnd_PastBoundary(ls, j) ==
    IF j > Len(ls) THEN Len(ls) + 1
    ELSE IF WebhookBoundary(ls[j]) THEN j + 1
    ELSE WebhookEnd_PastBoundary(ls, j + 1)

\* inner loop of the webhook block
RECURSIVE WebhookEnd(_, _)
WebhookEnd(ls, j) ==
    IF j > Len(ls) THEN Len(ls) + 1
    ELSE IF WebhookBoundary(ls[j]) THEN j
    ELSE WebhookEnd(ls, j + 1)

\* outer loop of the billing block, i runs over range(1, len(billing_indices))
RECURSIVE MarkBillingFrom(_, _, _)
MarkBillingFrom(ls, idx, i) ==
    IF i > Len(idx) THEN {}
    ELSE (idx[i] .. (BillingEnd(ls, idx[i] + 1) - 1)) \cup MarkBillingFrom(ls, idx, i + 1)

\* outer loop of the webhook block
RECURSIVE MarkWebhookFrom(_, _, _)
MarkWebhookFrom(ls, idx, i) ==
    IF i > Len(idx) THEN {}
    ELSE (idx[i] .. (WebhookEnd(ls, idx[i] + 1) - 1)) \cup MarkWebhookFrom(ls, idx, i + 1)

\* [line for i, line in enumerate(lines) if i not in lines_to_remove]
RECURSIVE CleanedFrom(_, _, _)
CleanedFrom(ls, rm, i) ==
    IF i > Len(ls) THEN <<>>
    ELSE IF i \in rm THEN CleanedFrom(ls, rm, i + 1)
    ELSE <<ls[i]>> \o CleanedFrom(ls, rm, i + 1)

\* CleanedLines with the enumeration one off against the marked indices
CleanedLines_Shifted(ls, rm) == CleanedFrom(ls, { i + 1 : i \in rm }, 1)

CleanedLines(ls, rm) == CleanedFrom(ls, rm, 1)

-----------------------------------------------------------------------------
(* validate-spec.py: documents and output *)

\* number of schema names a document can define or reference
MaxSchemas == 2

SchemaNames == 1..MaxSchemas

\* required_fields = ['openapi', 'info', 'paths']
required_fields == <<"openapi", "info", "paths">>

RequiredSet == { required_fields[i] : i \in 1..Len(required_fields) }

\* What is on disk and what yaml.safe_load makes of it.  state: the file is
\* not there, is not YAML, or parses.  kind: a mapping, a sequence of strings, or
\* None (an empty file).  keys: the required fields among the keys of the
\* mapping (the elements of the sequence).  paths: the value of 'paths' is
\* a mapping of mappings, a mapping with a null item, or null.
\* components: absent, null, or a mapping.  schemas: the names under
\* components.schemas.  refs: the names N of the '#/components/schemas/N'
\* strings of the document.
ParsedDocuments ==
    [ state : {"parsed"},
      kind : {"mapping"},
      keys : SUBSET RequiredSet,
      paths : {"mapping", "null_item", "null"},
      components : {"absent", "null", "mapping"},
      schemas : SUBSET SchemaNames,
      refs : SUBSET SchemaNames ]
    \cup
    [ state : {"parsed"},
      kind : {"sequence", "null"},
      keys : {{}, RequiredSet},
      paths : {"mapping"},
      components : {"absent"},
      schemas : {{}},
      refs : {{}} ]

UnparsedFiles ==
    [ state : {"absent", "malformed"},
      kind : {"null"},
      keys : {{}},
      paths : {"mapping"},
      components : {"absent"},
      schemas : {{}},
      refs : {{}} ]

DiskStates == UnparsedFiles \cup ParsedDocuments

\* the value of spec before safe_load has returned
NoSpec == CHOOSE d \in UnparsedFiles : d.state = "absent"

\* a line of standard output: its text and the values formatted into it
Msg(text) == [text |-> text, field |-> "", refs |-> {}]

MsgField(text, f) == [text |-> text, field |-> f, refs |-> {}]

MsgRefs(text, rs) == [text |-> text, field |-> "", refs |-> rs]

\* schemas = components.get('schemas', {}), for components defaulting to {}
Schemas(doc) == IF doc.components = "mapping" THEN doc.schemas ELSE {}

\* [ref for ref in unique_refs if ref not in schemas]
MissingRefs(doc) == { r \in doc.refs : r \notin Schemas(doc) }

-----------------------------------------------------------------------------
(* fix_api_spec as a sequence of steps *)

\* the files the runs start from: '\n'.join of one to MaxLen lines
Documents ==
    { Join(d) : d \in (SeqsUpTo(SectionLines, MaxLen) \cup SeqsUpTo(QuoteLines, MaxLen)) \ { <<>> } }

\* validate-spec.py is not running
ValidateIdle ==
    /\ yaml_available = TRUE
    /\ disk = NoSpec
    /\ spec = NoSpec
    /\ field_idx = 0
    /\ missing_refs = {}
    /\ ret = "None"
    /\ vpc = "idle"
    /\ raised = "none"
    /\ out = <<>>
    /\ exit_code = -1

Init ==
    /\ ValidateIdle
    /\ file \in Documents
    /\ content = <<>>
    /\ lines = <<>>
    /\ billing_indices = <<>>
    /\ webhook_indices = <<>>
    /\ lines_to_remove = {}
    /\ pc = "read"
    /\ run = 1
    /\ orig = file

\* content = f.read()
ReadFile ==
    /\ pc = "read"
    /\ content' = file
    /\ pc' = "quote"
    /\ UNCHANGED <<file, lines, billing_indices, webhook_indices, lines_to_remove, run, orig>>
    /\ UNCHANGED vvars

\* the two re.sub calls
FixQuotes ==
    /\ pc = "quote"
    /\ content' = QuoteDefaults(content)
    /\ pc' = "scan"
    /\ UNCHANGED <<file, lines, billing_indices, webhook_indices, lines_to_remove, run, orig>>
    /\ UNCHANGED vvars

\* split and the scan for the two markers; lines_to_remove = set()
FindSections ==
    /\ pc = "scan"
    /\ lines' = Split(content)
    /\ billing_indices' = ScanBilling(lines', 1)
    /\ webhook_indices' = ScanWebhook(lines', 1)
    /\ lines_to_remove' = {}
    /\ pc' = "billing"
    /\ UNCHANGED <<file, content, run, orig>>
    /\ UNCHANGED vvars

\* if len(billing_indices) > 1: ...
MarkBilling ==
    /\ pc = "billing"
    /\ lines_to_remove' =
          IF Len(billing_indices) > 1
          THEN lines_to_remove \cup MarkBillingFrom(lines, billing_indices, 2)
          ELSE lines_to_remove
    /\ pc' = "webhook"
    /\ UNCHANGED <<file, content, lines, billing_indices, webhook_indices, run, orig>>
    /\ UNCHANGED vvars

\* MarkWebhook that does not spare the first occurrence
MarkWebhook_FromFirst ==
    /\ pc = "webhook"
    /\ lines_to_remove' =
          IF Len(webhook_indices) > 0
          THEN lines_to_remove \cup MarkWebhookFrom(lines, webhook_indices, 1)
          ELSE lines_to_remove
    /\ pc' = "write"
    /\ UNCHANGED <<file, content, lines, billing_indices, webhook_indices, run, orig>>
    /\ UNCHANGED vvars

\* if len(webhook_indices) > 1: ...
MarkWebhook ==
    /\ pc = "webhook"
    /\ lines_to_remove' =
          IF Len(webhook_indices) > 1
          THEN lines_to_remove \cup MarkWebhookFrom(lines, webhook_indices, 2)
          ELSE lines_to_remove
    /\ pc' = "write"
    /\ UNCHANGED <<file, content, lines, billing_indices, webhook_indices, run, orig>>
    /\ UNCHANGED vvars

\* if lines_to_remove: content = '\n'.join(cleaned_lines); f.write(content)
RemoveAndWrite ==
    /\ pc = "write"
    /\ content' =
          IF lines_to_remove # {}
          THEN Join(CleanedLines(lines, lines_to_remove))
          ELSE content
    /\ file' = content'
    /\ pc' = "done"
    /\ UNCHANGED <<lines, billing_indices, webhook_indices, lines_to_remove, run, orig>>
    /\ UNCHANGED vvars

\* the script is run again on the file it has written
RunAgain ==
    /\ pc = "done"
    /\ run < MaxRuns
    /\ run' = run + 1
    /\ orig' = file
    /\ pc' = "read"
    /\ content' = <<>>
    /\ lines' = <<>>
    /\ billing_indices' = <<>>
    /\ webhook_indices' = <<>>
    /\ lines_to_remove' = {}
    /\ UNCHANGED file
    /\ UNCHANGED vvars

Next ==
    \/ ReadFile
    \/ FixQuotes
    \/ FindSections
    \/ MarkBilling
    \/ MarkWebhook
    \/ RemoveAndWrite
    \/ RunAgain

Spec == Init /\ [][Next]_vars

TypeOK ==
    /\ pc \in {"read", "quote", "scan", "billing", "webhook", "write", "done"}
    /\ run \in 1..MaxRuns
    /\ lines_to_remove \subseteq 1..Len(lines)

-----------------------------------------------------------------------------
(* validate-spec.py as a sequence of steps *)

InitValidate ==
    /\ yaml_available \in BOOLEAN
    /\ disk \in DiskStates
    /\ spec = NoSpec
    /\ field_idx = 0
    /\ missing_refs = {}
    /\ ret = "None"
    /\ vpc = "import"
    /\ raised = "none"
    /\ out = <<>>
    /\ exit_code = -1
    /\ file = <<>>
    /\ content = <<>>
    /\ lines = <<>>
    /\ billing_indices = <<>>
    /\ webhook_indices = <<>>
    /\ lines_to_remove = {}
    /\ pc = "idle"
    /\ run = 1
    /\ orig = <<>>

\* import yaml
ImportYaml ==
    /\ vpc = "import"
    /\ IF yaml_available
       THEN vpc' = "load" /\ raised' = raised
       ELSE vpc' = "except" /\ raised' = "ImportError"
    /\ UNCHANGED <<yaml_available, disk, spec, field_idx, missing_refs, ret, out, exit_code>>
    /\ UNCHANGED fvars

\* open the file and yaml.safe_load it, inside try/except yaml.YAMLError
LoadYaml ==
    /\ vpc = "load"
    /\ IF disk.state = "absent"
       THEN /\ out' = Append(out, Msg("Validating"))
            /\ raised' = "OSError"
            /\ vpc' = "except"
            /\ UNCHANGED <<spec, ret, field_idx>>
       ELSE IF disk.state = "malformed"
       THEN /\ out' = out \o << Msg("Validating"), Msg("YAML Error") >>
            /\ ret' = "False"
            /\ vpc' = "report"
            /\ UNCHANGED <<spec, raised, field_idx>>
       ELSE /\ out' = out \o << Msg("Validating"), Msg("YAML syntax is valid") >>
            /\ spec' = disk
            /\ field_idx' = 1
            /\ vpc' = "fields"
            /\ UNCHANGED <<ret, raised>>
    /\ UNCHANGED <<yaml_available, disk, missing_refs, exit_code>>
    /\ UNCHANGED fvars

\* one iteration of 'for field in required_fields', or the end of the loop
CheckRequiredField ==
    /\ vpc = "fields"
    /\ IF field_idx > Len(required_fields)
       THEN /\ out' = Append(out, Msg("Required OpenAPI fields present"))
            /\ vpc' = "counts"
            /\ UNCHANGED <<ret, raised, field_idx>>
       ELSE IF spec.kind = "null"
       THEN /\ raised' = "TypeError"
            /\ vpc' = "except"
            /\ UNCHANGED <<ret, out, field_idx>>
       ELSE IF required_fields[field_idx] \notin spec.keys
       THEN /\ out' = Append(out, MsgField("Missing required field", required_fields[field_idx]))
            /\ ret' = "False"
            /\ vpc' = "report"
            /\ UNCHANGED <<raised, field_idx>>
       ELSE /\ field_idx' = field_idx + 1
            /\ UNCHANGED <<ret, raised, out, vpc>>
    /\ UNCHANGED <<yaml_available, disk, spec, missing_refs, exit_code>>
    /\ UNCHANGED fvars

\* paths = spec.get('paths', {}) ... print(len(schemas))
CountPathsAndSchemas ==
    /\ vpc = "counts"
    /\ IF spec.kind # "mapping"
       THEN /\ raised' = "AttributeError"
            /\ vpc' = "except"
            /\ UNCHANGED out
       ELSE IF spec.paths = "null"
       THEN /\ raised' = "TypeError"
            /\ vpc' = "except"
            /\ UNCHANGED out
       ELSE IF spec.components = "null"
       THEN /\ out' = Append(out, Msg("Found unique paths"))
            /\ raised' = "AttributeError"
            /\ vpc' = "except"
       ELSE /\ out' = out \o << Msg("Found unique paths"),
                                Msg("Found schema definitions") >>
            /\ vpc' = "refs"
            /\ UNCHANGED raised
    /\ UNCHANGED <<yaml_available, disk, spec, field_idx, missing_refs, ret, exit_code>>
    /\ UNCHANGED fvars

\* CheckRefs that fails the validation on a missing reference
CheckRefs_Failing ==
    /\ vpc = "refs"
    /\ missing_refs' = MissingRefs(spec)
    /\ IF missing_refs' # {}
       THEN /\ out' = Append(out, MsgRefs("Missing schema references", missing_refs'))
            /\ ret' = "False"
            /\ vpc' = "report"
       ELSE /\ out' = Append(out, Msg("All schema references are valid"))
            /\ vpc' = "defaults"
            /\ UNCHANGED ret
    /\ UNCHANGED <<yaml_available, disk, spec, field_idx, raised, exit_code>>
    /\ UNCHANGED fvars

\* the $ref scan and the missing_refs report
CheckRefs ==
    /\ vpc = "refs"
    /\ missing_refs' = MissingRefs(spec)
    /\ out' = IF missing_refs' # {}
              THEN Append(out, MsgRefs("Missing schema references", missing_refs'))
              ELSE Append(out, Msg("All schema references are valid"))
    /\ vpc' = "defaults"
    /\ UNCHANGED <<yaml_available, disk, spec, field_idx, ret, raised, exit_code>>
    /\ UNCHANGED fvars

\* the loop over paths.items() and methods.items(), then return True
CheckDefaults ==
    /\ vpc = "defaults"
    /\ IF spec.paths = "null_item"
       THEN /\ raised' = "AttributeError"
            /\ vpc' = "except"
            /\ UNCHANGED <<out, ret>>
       ELSE /\ out' = Append(out, Msg("Parameter defaults are properly quoted"))
            /\ ret' = "True"
            /\ vpc' = "report"
            /\ UNCHANGED raised
    /\ UNCHANGED <<yaml_available, disk, spec, field_idx, missing_refs, exit_code>>
    /\ UNCHANGED fvars

\* Report without the sys.exit(1)
Report_NoExit ==
    /\ vpc = "report"
    /\ out' = IF ret = "True"
              THEN Append(out, Msg("API specification is valid"))
              ELSE Append(out, Msg("API specification has issues"))
    /\ exit_code' = 0
    /\ vpc' = "exited"
    /\ UNCHANGED <<yaml_available, disk, spec, field_idx, missing_refs, ret, raised>>
    /\ UNCHANGED fvars

\* if validate_openapi_spec(...): print(valid) else: print(issues); sys.exit(1)
Report ==
    /\ vpc = "report"
    /\ IF ret = "True"
       THEN /\ out' = Append(out, Msg("API specification is valid"))
            /\ exit_code' = 0
       ELSE /\ out' = Append(out, Msg("API specification has issues"))
            /\ exit_code' = 1
    /\ vpc' = "exited"
    /\ UNCHANGED <<yaml_available, disk, spec, field_idx, missing_refs, ret, raised>>
    /\ UNCHANGED fvars

\* except ImportError: ... / except Exception as e: ...; sys.exit(1)
HandleException ==
    /\ vpc = "except"
    /\ IF raised = "ImportError"
       THEN /\ out' = Append(out, Msg("PyYAML not available, skipping validation"))
            /\ exit_code' = 0
       ELSE /\ out' = Append(out, MsgField("Validation error", raised))
            /\ exit_code' = 1
    /\ vpc' = "exited"
    /\ UNCHANGED <<yaml_available, disk, spec, field_idx, missing_refs, ret, raised>>
    /\ UNCHANGED fvars

NextValidate ==
    \/ ImportYaml
    \/ LoadYaml
    \/ CheckRequiredField
    \/ CountPathsAndSchemas
    \/ CheckRefs
    \/ CheckDefaults
    \/ Report
    \/ HandleException

SpecValidate == InitValidate /\ [][NextValidate]_vars

-----------------------------------------------------------------------------
(* Declarative vocabulary for the properties of fix_api_spec *)

Min(S) == CHOOSE x \in S : \A y \in S : x <= y

\* lines of the removal pass that match a marker ('marker in line.strip()')
BillingMatches == { i \in 1..Len(lines) : IsBillingLine(lines[i]) }

WebhookMatches == { i \in 1..Len(lines) : IsWebhookLine(lines[i]) }

\* occurrences as the scan records them: a line holding both markers is a
\* billing occurrence only
BillingOcc == BillingMatches

WebhookOcc == WebhookMatches \ BillingMatches

LaterOcc(occ) == IF occ = {} THEN {} ELSE occ \ { Min(occ) }

\* first index after s whose line is a boundary, or Len(lines) + 1
BillingBoundaryAfter(s) ==
    Min({ j \in (s + 1)..Len(lines) : BillingBoundary(lines[j]) } \cup { Len(lines) + 1 })

WebhookBoundaryAfter(s) ==
    Min({ j \in (s + 1)..Len(lines) : WebhookBoundary(lines[j]) } \cup { Len(lines) + 1 })

\* the span of a duplicate occurrence: its start and every following line up
\* to, not including, the first boundary line
BillingSpan(s) ==
    { k \in s..Len(lines) : \A j \in (s + 1)..k : ~BillingBoundary(lines[j]) }

WebhookSpan(s) ==
    { k \in s..Len(lines) : \A j \in (s + 1)..k : ~WebhookBoundary(lines[j]) }

AllSpans ==
    UNION ({ BillingSpan(s) : s \in LaterOcc(BillingOcc) }
           \cup { WebhookSpan(s) : s \in LaterOcc(WebhookOcc) })

RECURSIVE SumOver(_, _)
SumOver(S, f) ==
    IF S = {} THEN 0
    ELSE LET x == CHOOSE y \in S : TRUE IN f[x] + SumOver(S \ {x}, f)

SumOfSpanLengths ==
    SumOver(LaterOcc(BillingOcc), [s \in LaterOcc(BillingOcc) |-> BillingBoundaryAfter(s) - s])
    + SumOver(LaterOcc(WebhookOcc), [s \in LaterOcc(WebhookOcc) |-> WebhookBoundaryAfter(s) - s])

\* the indices of 1..n outside rm, in increasing order
RECURSIVE KeptIndices(_, _)
KeptIndices(n, rm) ==
    IF n = 0 THEN <<>>
    ELSE IF n \in rm THEN KeptIndices(n - 1, rm)
    ELSE Append(KeptIndices(n - 1, rm), n)

Filtered(ls, rm) ==
    LET kept == KeptIndices(Len(ls), rm) IN [k \in 1..Len(kept) |-> ls[kept[k]]]

\* the lines of the file as a reader of the result sees them
WrittenLines == Split(file)

-----------------------------------------------------------------------------
(* C1: for each of the two markers, the first line matching the marker is  *)
(* never removed, and when the marker matches more than one line the       *)
(* written result has exactly one line matching it, the first occurrence   *)
(* of the input.                                                           *)
C1_FirstOccurrenceKept ==
    pc = "done" =>
        /\ BillingMatches # {} => Min(BillingMatches) \notin lines_to_remove
        /\ WebhookMatches # {} => Min(WebhookMatches) \notin lines_to_remove
        /\ Cardinality(BillingMatches) > 1 =>
              /\ Cardinality({ i \in 1..Len(WrittenLines) : IsBillingLine(WrittenLines[i]) }) = 1
              /\ \E i \in 1..Len(WrittenLines) : WrittenLines[i] = lines[Min(BillingMatches)]
        /\ Cardinality(WebhookMatches) > 1 =>
              /\ Cardinality({ i \in 1..Len(WrittenLines) : IsWebhookLine(WrittenLines[i]) }) = 1
              /\ \E i \in 1..Len(WrittenLines) : WrittenLines[i] = lines[Min(WebhookMatches)]

(* C2: a marker that matches fewer than two lines has no span marked for   *)
(* it, and when both markers match fewer than two lines the removal set is *)
(* empty and the lines written back are the lines that entered the removal *)
(* pass, in the same order.                                                *)
C2_Step ==
    /\ (pc = "billing" /\ Cardinality(BillingMatches) < 2) => lines_to_remove' = lines_to_remove
    /\ (pc = "webhook" /\ Cardinality(WebhookMatches) < 2) => lines_to_remove' = lines_to_remove
    /\ (pc = "write" /\ Cardinality(BillingMatches) < 2 /\ Cardinality(WebhookMatches) < 2) =>
          /\ lines_to_remove = {}
          /\ Split(file') = lines

C2_NoDuplicateNoChange == [][C2_Step]_vars

C2_Witness ==
    /\ pc = "done"
    /\ Cardinality(BillingMatches) = 1
    /\ Cardinality(WebhookMatches) = 1
    /\ Len(lines) = MaxLen
    /\ WrittenLines = lines

(* C3: running fix_api_spec on its own output writes back exactly the      *)
(* content the first run produced.                                         *)
C3_Idempotent ==
    (run = 2 /\ pc = "done") => file = orig

(* C4 as stated: when a marker occurs more than once, the line count of    *)
(* the result is the input line count minus the sum of the lengths of the  *)
(* spans [start_idx, end_idx) of the occurrences after the first.          *)
C4_SumOfSpanLengths ==
    (pc = "done" /\ (Cardinality(BillingOcc) > 1 \/ Cardinality(WebhookOcc) > 1)) =>
        Len(WrittenLines) = Len(Split(orig)) - SumOfSpanLengths

(* C4 amended: the line count of the result is the input line count minus  *)
(* the number of distinct indices in the union of those spans.             *)
C4_UnionOfSpans ==
    (pc = "done" /\ (Cardinality(BillingOcc) > 1 \/ Cardinality(WebhookOcc) > 1)) =>
        Len(WrittenLines) = Len(Split(orig)) - Cardinality(AllSpans)

C4_Witness ==
    /\ pc = "done"
    /\ Cardinality(BillingOcc) > 1
    /\ Cardinality(WebhookOcc) > 1
    /\ SumOfSpanLengths > Cardinality(AllSpans)
    /\ Len(WrittenLines) = Len(lines) - Cardinality(AllSpans)

(* C5 as stated: for each occurrence of a marker after the first the       *)
(* removed span is exactly [match_index, boundary_index), the boundary     *)
(* line itself is retained, and the output is the original sequence with   *)
(* the marked indices filtered out, in order.                              *)
C5_BoundaryRetained ==
    pc = "done" =>
        /\ \A s \in LaterOcc(BillingOcc) :
              /\ s..(BillingBoundaryAfter(s) - 1) \subseteq lines_to_remove
              /\ BillingBoundaryAfter(s) <= Len(lines) => BillingBoundaryAfter(s) \notin lines_to_remove
        /\ \A s \in LaterOcc(WebhookOcc) :
              /\ s..(WebhookBoundaryAfter(s) - 1) \subseteq lines_to_remove
              /\ WebhookBoundaryAfter(s) <= Len(lines) => WebhookBoundaryAfter(s) \notin lines_to_remove
        /\ WrittenLines = Filtered(lines, lines_to_remove)

(* C5 amended: the marked indices are exactly the union of the spans       *)
(* [match_index, boundary_index) of the occurrences after the first, the   *)
(* output is the original sequence with those indices filtered out, in     *)
(* order, and a boundary line is retained unless it lies in the span of    *)
(* another duplicate occurrence.                                           *)
C5_SpansRemoved ==
    pc = "done" =>
        /\ lines_to_remove =
              UNION ({ s..(BillingBoundaryAfter(s) - 1) : s \in LaterOcc(BillingOcc) }
                     \cup { s..(WebhookBoundaryAfter(s) - 1) : s \in LaterOcc(WebhookOcc) })
        /\ \A s \in LaterOcc(BillingOcc) :
              LET e == BillingBoundaryAfter(s)
              IN  (e <= Len(lines) /\ e \notin AllSpans) =>
                     \E k \in 1..Len(WrittenLines) :
                        /\ WrittenLines[k] = lines[e]
                        /\ k = e - Cardinality({ r \in lines_to_remove : r < e })
        /\ \A s \in LaterOcc(WebhookOcc) :
              LET e == WebhookBoundaryAfter(s)
              IN  (e <= Len(lines) /\ e \notin AllSpans) =>
                     \E k \in 1..Len(WrittenLines) :
                        /\ WrittenLines[k] = lines[e]
                        /\ k = e - Cardinality({ r \in lines_to_remove : r < e })
        /\ WrittenLines = Filtered(lines, lines_to_remove)

C5_Witness ==
    /\ pc = "done"
    /\ \E s, t \in LaterOcc(BillingOcc) :
          /\ BillingBoundaryAfter(s) <= Len(lines)
          /\ BillingBoundaryAfter(s) \in lines_to_remove
          /\ BillingBoundaryAfter(t) <= Len(lines)
          /\ BillingBoundaryAfter(t) \notin lines_to_remove
    /\ WrittenLines = Filtered(lines, lines_to_remove)

(* C6: every line '  default: en' becomes '  default: "en"' wherever it    *)
(* stands in the file, the last line without trailing newline included; a  *)
(* line '  default: enable' is never altered; the same for 'published'.    *)
C6_QuotingFix ==
    pc = "scan" =>
        LET before == Split(file)
            after == Split(content)
        IN  /\ Len(after) = Len(before)
            /\ \A i \in 1..Len(before) :
                  /\ before[i] = <<SP, SP, DefaultEn>> => after[i] = <<SP, SP, DefaultEnQuoted>>
                  /\ before[i] = <<SP, SP, DefaultPublished>> => after[i] = <<SP, SP, DefaultPublishedQuoted>>
                  /\ before[i] = <<SP, SP, DefaultEn, "able">> => after[i] = before[i]

(* C10: every removed index lies in a span that starts at a second or      *)
(* later occurrence of a marker and holds no line after its start that     *)
(* satisfies that marker's boundary test; so no line before the second     *)
(* occurrence of any marker is removed; a line holding both markers is     *)
(* counted as a billing occurrence only.                                   *)
C10_RemovalFrame ==
    pc \in {"write", "done"} =>
        /\ \A k \in lines_to_remove :
              \/ \E s \in LaterOcc(BillingOcc) : k \in BillingSpan(s)
              \/ \E s \in LaterOcc(WebhookOcc) : k \in WebhookSpan(s)
        /\ \A k \in lines_to_remove :
              \E s \in LaterOcc(BillingOcc) \cup LaterOcc(WebhookOcc) : s <= k
        /\ \A i \in BillingMatches \cap WebhookMatches :
              /\ \E n \in 1..Len(billing_indices) : billing_indices[n] = i
              /\ \A n \in 1..Len(webhook_indices) : webhook_indices[n] # i

C10_Witness ==
    /\ pc = "done"
    /\ lines_to_remove # {}
    /\ BillingMatches \cap WebhookMatches # {}
    /\ LaterOcc(BillingOcc) # {}
    /\ LaterOcc(WebhookOcc) # {}

-----------------------------------------------------------------------------
(* Properties of validate-spec.py *)

Printed(msg) == \E i \in 1..Len(out) : out[i] = msg

PrintedKind(k) == \E i \in 1..Len(out) : out[i].text = k

TimesPrinted(msg) == Cardinality({ i \in 1..Len(out) : out[i] = msg })

DiagnosticPrinted ==
    \/ PrintedKind("YAML Error")
    \/ PrintedKind("Missing required field")
    \/ PrintedKind("Validation error")

IsParsed == disk.state = "parsed"

\* the file parses and a required top-level field is absent from it
FieldAbsent == IsParsed /\ \E f \in RequiredSet : f \notin disk.keys

\* a parsed mapping with every part in the expected shape
WellFormed ==
    /\ IsParsed
    /\ disk.kind = "mapping"
    /\ disk.keys = RequiredSet
    /\ disk.paths = "mapping"
    /\ disk.components # "null"

(* C7 as stated: on every execution path, the import failure path          *)
(* included, the script prints a diagnostic and exits non-zero when the    *)
(* file fails to parse or a required field is absent, and exits 0 only     *)
(* when validation succeeded.                                              *)
C7_ExitStatus ==
    vpc = "exited" =>
        /\ (disk.state = "malformed" \/ FieldAbsent) => (exit_code # 0 /\ DiagnosticPrinted)
        /\ exit_code = 0 => ret = "True"

(* C7 amended: when the YAML library is imported, the script prints a      *)
(* diagnostic and exits non-zero when the file fails to parse or a         *)
(* required field is absent, and exits 0 only when validation succeeded;   *)
(* when the import fails it prints that validation is skipped and exits 0  *)
(* without validating.                                                     *)
C7_ExitStatusWhenImported ==
    vpc = "exited" =>
        /\ yaml_available =>
              /\ (disk.state = "malformed" \/ FieldAbsent) => (exit_code # 0 /\ DiagnosticPrinted)
              /\ exit_code = 0 => ret = "True"
        /\ ~yaml_available =>
              /\ exit_code = 0
              /\ ret = "None"
              /\ out = << Msg("PyYAML not available, skipping validation") >>

C7_Witness ==
    /\ vpc = "exited"
    /\ yaml_available
    /\ FieldAbsent
    /\ disk.kind = "mapping"
    /\ disk.keys = {"openapi", "info"}
    /\ exit_code = 1
    /\ Printed(MsgField("Missing required field", "paths"))

(* C8: a document that parses, has the required fields and whose only      *)
(* issue is a reference to a schema not defined under components.schemas   *)
(* gets a warning, validate_openapi_spec returns True and the process      *)
(* exits 0.                                                                *)
C8_MissingRefOnlyWarns ==
    (vpc = "exited" /\ yaml_available /\ WellFormed /\ MissingRefs(disk) # {}) =>
        /\ Printed(MsgRefs("Missing schema references", MissingRefs(disk)))
        /\ ~DiagnosticPrinted
        /\ ret = "True"
        /\ exit_code = 0

C8_Witness ==
    /\ vpc = "exited"
    /\ yaml_available
    /\ WellFormed
    /\ disk.components = "mapping"
    /\ disk.schemas # {}
    /\ MissingRefs(disk) # {}
    /\ MissingRefs(disk) # disk.refs
    /\ exit_code = 0

(* C9: for a parsed document missing any subset of the required fields,    *)
(* one missing-field message is printed for each missing field, and the    *)
(* validation then fails by returning False, not by raising.               *)
C9_EachMissingFieldReported ==
    (vpc = "exited" /\ yaml_available /\ IsParsed) =>
        /\ \A f \in RequiredSet \ disk.keys : TimesPrinted(MsgField("Missing required field", f)) = 1
        /\ \A f \in disk.keys : TimesPrinted(MsgField("Missing required field", f)) = 0
        /\ FieldAbsent => (ret = "False" /\ raised = "none")

====
